---- MODULE Spec2Model ----
(***************************************************************************)
(* Model of cross_pro_cg.                                                  *)
(*                                                                         *)
(*  - SpecTraversal: DependencyAnalyzer::find_all_dependents               *)
(*    (src/src/dependency_analyzer.rs): the breadth-first loop over        *)
(*    (name, version) pairs and the parallel leaf phase that follows it.   *)
(*  - SpecKrate: Krate::get_crate_dir_path (src/src/krate.rs): concurrent  *)
(*    tasks that materialise crates under the in-flight key set.           *)
(*                                                                         *)
(* Each specification leaves the other part's variables unchanged.         *)
(***************************************************************************)
EXTENDS Integers, Sequences, FiniteSets, TLC

\* Option values: Err / None is the empty tuple, Ok(x) / Some(x) is <<x>>.
NoneV == << >>
Some(x) == <<x>>

Min(a, b) == IF a < b THEN a ELSE b

Range(s) == {s[i] : i \in 1..Len(s)}

(***************************************************************************)
(* semver: exact versions and version requirements.  The strings of the    *)
(* registries below are parsed as the semver crate parses them: an exact   *)
(* version needs three numeric components, a requirement is a comma        *)
(* separated list of comparators, a caret comparator may leave out minor   *)
(* and patch.                                                              *)
(***************************************************************************)
VersionTable ==
    [s \in {"0.1.0", "0.2.0", "1.0.0", "1.1.0", "2.0.0"} |->
        CASE s = "0.1.0" -> <<0, 1, 0>>
          [] s = "0.2.0" -> <<0, 2, 0>>
          [] s = "1.0.0" -> <<1, 0, 0>>
          [] s = "1.1.0" -> <<1, 1, 0>>
          [] s = "2.0.0" -> <<2, 0, 0>>]

\* Version::parse: Ok(triple), or Err (a string such as "1.0" does not parse).
ParseVersion(s) == IF s \in DOMAIN VersionTable THEN Some(VersionTable[s]) ELSE NoneV

Cmp(op, v) == [op |-> op, v |-> v]

ReqTable ==
    [s \in {"^1.0", "^2.0", "^0.1", "=1.1.0", ">=1.0.0, <1.1.0", "*"} |->
        CASE s = "^1.0"            -> <<Cmp("^", <<1, 0, 0>>)>>
          [] s = "^2.0"            -> <<Cmp("^", <<2, 0, 0>>)>>
          [] s = "^0.1"            -> <<Cmp("^", <<0, 1, 0>>)>>
          [] s = "=1.1.0"          -> <<Cmp("=", <<1, 1, 0>>)>>
          [] s = ">=1.0.0, <1.1.0" -> <<Cmp(">=", <<1, 0, 0>>), Cmp("<", <<1, 1, 0>>)>>
          [] s = "*"               -> << >>]

\* VersionReq::parse: Ok(comparators), or Err.
ParseReq(s) == IF s \in DOMAIN ReqTable THEN Some(ReqTable[s]) ELSE NoneV

VerLess(a, b) ==
    \/ a[1] < b[1]
    \/ a[1] = b[1] /\ a[2] < b[2]
    \/ a[1] = b[1] /\ a[2] = b[2] /\ a[3] < b[3]

\* The first version a caret comparator excludes.
CaretUpper(v) ==
    IF v[1] > 0 THEN <<v[1] + 1, 0, 0>>
    ELSE IF v[2] > 0 THEN <<0, v[2] + 1, 0>>
    ELSE <<0, 0, v[3] + 1>>

CmpMatches(c, ver) ==
    CASE c.op = "="  -> ver = c.v
      [] c.op = ">=" -> ~VerLess(ver, c.v)
      [] c.op = "<"  -> VerLess(ver, c.v)
      [] c.op = "^"  -> ~VerLess(ver, c.v) /\ VerLess(ver, CaretUpper(c.v))

\* VersionReq::matches: every comparator accepts the version.
ReqMatches(req, ver) == \A i \in 1..Len(req) : CmpMatches(req[i], ver)

\* A variant of the guard that only asks for both strings to parse.
Matches_ParseOnly(reqStr, verStr) ==
    /\ ParseVersion(verStr) # NoneV
    /\ ParseReq(reqStr) # NoneV

\* The guard of lines 728-729: both strings parse and the requirement matches.
Matches(reqStr, verStr) ==
    /\ ParseVersion(verStr) # NoneV
    /\ ParseReq(reqStr) # NoneV
    /\ ReqMatches(ParseReq(reqStr)[1], ParseVersion(verStr)[1])

(***************************************************************************)
(* The registry (the crates.io database behind psql) and the crates of     *)
(* the run.  A PkgId is the pair <<name, version>>; a reverse-dependent    *)
(* record is <<dep_name, dep_version, req>>.                               *)
(***************************************************************************)
start_crate == "s"

NoRecords == << >>

\* A seed with one matching version and no reverse-dependents.
RegistryLone ==
    [versions   |-> <<"1.0.0">>,
     dependents |-> [n \in {"s", "d", "g", "h"} |-> NoRecords]]

\* Two seed versions share the dependent d; e and f never match; d and h
\* depend on each other, and s 1.0.0 itself depends on d (a cycle through
\* a seed).
RegistryGraph ==
    [versions   |-> <<"1.0", "1.0.0", "1.1.0", "2.0.0">>,
     dependents |->
        [n \in {"s", "d", "g", "h"} |->
            CASE n = "s" -> << <<"d", "0.1.0", "^1.0">>,
                               <<"e", "0.1.0", "^2.0">>,
                               <<"f", "0.1.0", "~x">>,
                               <<"g", "0.1.0", "=1.1.0">> >>
              [] n = "d" -> << <<"h", "0.1.0", "^0.1">>,
                               <<"s", "1.0.0", "*">> >>
              [] n = "h" -> << <<"d", "0.1.0", "^0.1">> >>
              [] n = "g" -> NoRecords]]

Registries == {RegistryLone, RegistryGraph}

\* Before the run: nothing has been queried.
NoRegistry == [versions |-> << >>, dependents |-> [n \in {"s", "d", "g", "h"} |-> NoRecords]]

\* The version_range arguments tried ("1.x.y.z" does not parse).
VersionRanges == {"^1.0", "=1.1.0", ">=1.0.0, <1.1.0", "1.x.y.z"}

PkgIds ==
    {<<start_crate, v>> : v \in {"1.0", "1.0.0", "1.1.0", "2.0.0"}}
        \cup {<<n, "0.1.0">> : n \in {"d", "e", "f", "g", "h"}}

(***************************************************************************)
(* What one crate yields when it is downloaded and the call-graph tool is  *)
(* run on it: whether download and extraction succeed, whether the tool    *)
(* exits with status zero, whether target/callers.json exists afterwards   *)
(* and the total_callers it reports.  The answer for a crate is fixed for  *)
(* the run the first time the crate is analysed.                           *)
(***************************************************************************)
Outcome(dl, ex, rep, tc) ==
    [download |-> dl, exit_ok |-> ex, report |-> rep, total_callers |-> tc]

Outcomes ==
    { Outcome(FALSE, FALSE, FALSE, 0),   \* download or extraction fails
      Outcome(TRUE, FALSE, TRUE, 1),     \* the tool exits non-zero
      Outcome(TRUE, TRUE, FALSE, 0),     \* no callers.json
      Outcome(TRUE, TRUE, TRUE, 0),      \* total_callers = 0
      Outcome(TRUE, TRUE, TRUE, 1) }     \* total_callers > 0

Unknown == [download |-> FALSE, exit_ok |-> FALSE, report |-> FALSE, total_callers |-> -1]

\* A variant that returns the report whenever callers.json can be read.
check_function_call_AnyReport(o) ==
    /\ o.download
    /\ o.report

\* check_function_call(..).is_some(): Some(content) only on the paths that
\* end in "return Some(content)".
check_function_call(o) ==
    /\ o.download
    /\ o.exit_ok
    /\ o.report
    /\ o.total_callers > 0

\* The number of worker threads of the leaf phase (32 in the source), scaled.
num_threads == 3

Threads == 0..(num_threads - 1)

VARIABLES
    pc,                     \* where find_all_dependents is
    registry,               \* the registry of this run
    visited, queue, leaf_nodes,
    current,                \* (current_crate, current_version)
    dependents,             \* the records the for loop has still to handle
    has_valid_dependents,
    nodes,                  \* the shared vector of process_leaf_nodes_parallel
    nodes_per_thread,
    poisoned,               \* the mutex around nodes is poisoned
    th_pc, local_nodes,     \* per worker thread
    joined,                 \* the handles joined so far
    report,                 \* PkgId -> outcome of its analysis
    files,                  \* PkgIds with target/<name>-<version>-callers.json
    started,                \* PkgId -> number of check_function_call calls
    returned_calls,         \* PkgIds for which a call returned Some
    analysed_under,         \* <<parent, record>> analysed in the loop
    enqueued_under,         \* <<parent, record>> pushed onto the queue
    seeds,                  \* PkgIds enqueued from the version query
    pushes,                 \* PkgId -> number of queue.push_back
    version_req,            \* VersionReq::parse(version_range): NoneV on Err
    psql,                   \* how a psql query ends at present
    queried,                \* "no" | "ok" | "failed": the queries made so far
    qdepth,                 \* the discovery depth of each entry of queue
    cur_depth,              \* the discovery depth of current
    archives,               \* PkgIds whose .crate file is in the temp dir
    tool_runs               \* PkgId -> number of call-cg4rs analysis runs

tvars == <<pc, registry, visited, queue, leaf_nodes, current, dependents,
           has_valid_dependents, nodes, nodes_per_thread, poisoned, th_pc,
           local_nodes, joined, report, files, started, returned_calls,
           analysed_under, enqueued_under, seeds, pushes, version_req, psql,
           queried, qdepth, cur_depth, archives, tool_runs>>

VARIABLES
    permits,                \* free permits of DOWNLOAD_SEMAPHORE
    crate_lock,             \* the key set inside GLOBAL_CRATE_LOCK
    mutex,                  \* the task holding the GLOBAL_CRATE_LOCK mutex
    kpc,                    \* task -> where it is in get_crate_dir_path
    krate,                  \* task -> the PkgId it materialises
    polls,                  \* task -> completed iterations of the wait loop
    result,                 \* task -> what get_crate_dir_path returned
    crate_file,             \* path -> "absent" | "empty" | "data"
    extract_dir,            \* path -> "absent" | "partial" | "dir" | "file"
    inserted,               \* task -> it inserted its key
    waited,                 \* task -> it found its key in the set
    worked                  \* task -> it ran download() or unzip()

kvars == <<permits, crate_lock, mutex, kpc, krate, polls, result, crate_file,
           extract_dir, inserted, waited, worked>>

VARIABLES
    manifest,               \* the Cargo.toml of the crate directory: NoneV when
                            \* it is missing, Some(content) otherwise
    pdep,                   \* <<parent_name, parent_version>> of the calls
    pbefore,                \* the Cargo.toml as it was before the latest call
    pret,                   \* what the latest call returned
    pfault,                 \* the I/O fault met by the latest call
    pphase                  \* "init" | "chosen" | "once" | "twice" (calls made)

pvars == <<manifest, pdep, pbefore, pret, pfault, pphase>>

VARIABLES
    cwd,                    \* the working directory of the process
    wpc,                    \* worker -> where it is in process_leaf_node
    original_dir,           \* worker -> the original_dir it saved
    disk,                   \* the archives, directories and reports created
    tool_dir                \* worker -> the directory its tool ran in

wvars == <<cwd, wpc, original_dir, disk, tool_dir>>

vars == <<tvars, kvars, pvars, wvars>>

NoPkg == <<"", "">>

TInit ==
    /\ pc = "start"
    /\ registry = NoRegistry
    /\ visited = {}
    /\ queue = << >>
    /\ leaf_nodes = << >>
    /\ current = NoPkg
    /\ dependents = << >>
    /\ has_valid_dependents = FALSE
    /\ nodes = << >>
    /\ nodes_per_thread = 0
    /\ poisoned = FALSE
    /\ th_pc = [t \in Threads |-> "unspawned"]
    /\ local_nodes = [t \in Threads |-> << >>]
    /\ joined = 0
    /\ report = [p \in PkgIds |-> Unknown]
    /\ files = {}
    /\ started = [p \in PkgIds |-> 0]
    /\ returned_calls = {}
    /\ analysed_under = {}
    /\ enqueued_under = {}
    /\ seeds = {}
    /\ pushes = [p \in PkgIds |-> 0]
    /\ version_req = NoneV
    /\ psql = "ok"
    /\ queried = "no"
    /\ qdepth = << >>
    /\ cur_depth = 0
    /\ archives = {}
    /\ tool_runs = [p \in PkgIds |-> 0]


\* query_crate_versions / query_dependents: the rows psql prints.
query_crate_versions(reg, name) == IF name = start_crate THEN reg.versions ELSE << >>

query_dependents(reg, name) ==
    IF name \in DOMAIN reg.dependents THEN reg.dependents[name] ELSE NoRecords

\* A variant that pushes every published version that parses.
RECURSIVE SeedQueue_All(_, _)
SeedQueue_All(versions, req) ==
    IF versions = << >> THEN << >>
    ELSE LET v == Head(versions)
             rest == SeedQueue_All(Tail(versions), req)
         IN IF ParseVersion(v) # NoneV
            THEN <<<<start_crate, v>>>> \o rest
            ELSE rest

\* The seed loop: push every published version that parses and matches.
RECURSIVE SeedQueue(_, _)
SeedQueue(versions, req) ==
    IF versions = << >> THEN << >>
    ELSE LET v == Head(versions)
             rest == SeedQueue(Tail(versions), req)
         IN IF ParseVersion(v) # NoneV /\ ReqMatches(req, ParseVersion(v)[1])
            THEN <<<<start_crate, v>>>> \o rest
            ELSE rest

RECURSIVE CountPushes(_, _)
CountPushes(q, f) ==
    IF q = << >> THEN f
    ELSE CountPushes(Tail(q), [f EXCEPT ![Head(q)] = @ + 1])

\* How a run of psql can end: it prints its rows, it exits with an error
\* (no connection, failed statement) or the program cannot be started.
PsqlStatuses == {"ok", "exit_error", "cannot_start"}

\* String::from_utf8_lossy(&output.stdout): the exit status of psql is not
\* looked at, so a psql that exits with an error contributes no rows.
psql_stdout(status, rows) == IF status = "ok" THEN rows ELSE << >>

\* .output().expect("Failed to execute psql command"): the thread panics
\* when psql cannot be started, otherwise the function goes on.
AfterQuery(status, next) ==
    IF status = "cannot_start" THEN "query_panicked" ELSE next

\* The record of the queries made so far: "failed" once one of them failed.
QueriedAfter(q, status) ==
    IF status = "ok" /\ q # "failed" THEN "ok" ELSE "failed"

\* A variant that goes on to the queries after the range failed to parse.
AfterParseError_Continue == "query"

\* Err(e) of VersionReq::parse: error!(..) and return Vec::new().
AfterParseError == "done"

\* A variant that pushes at the front of the queue.
push_back_Front(q, x) == <<x>> \o q

\* VecDeque::push_back.
push_back(q, x) == Append(q, x)

\* A variant that runs the tool a second time after a non-zero exit.
ToolRuns_Retry(o) ==
    IF ~o.download THEN 0
    ELSE IF ~o.exit_ok THEN 2
    ELSE IF ~o.report THEN 2
    ELSE 1

\* The number of "call-cg4rs --find-callers-of" runs of one
\* check_function_call: none when the download fails, one when the tool
\* exits non-zero or leaves a callers.json, a second one (without --quiet)
\* when the first exits zero without a callers.json.
ToolRuns(o) ==
    IF ~o.download THEN 0
    ELSE IF ~o.exit_ok THEN 1
    ELSE IF ~o.report THEN 2
    ELSE 1

\* The .crate files in the temp dir after check_function_call(krate): both
\* cleanup sites follow a zero exit of the tool; the returns after a spawn
\* failure or a non-zero exit leave the archive, and so does a download
\* that fails once the file is there (left).
ArchivesAfter(a, krate_id, o, left) ==
    IF o.download
    THEN IF o.exit_ok THEN a \ {krate_id} ELSE a \cup {krate_id}
    ELSE IF left THEN a \cup {krate_id} ELSE a

THelpersUnchanged ==
    UNCHANGED <<nodes, nodes_per_thread, poisoned, th_pc, local_nodes, joined,
                kvars, pvars, wvars>>

\* find_all_dependents up to the BFS loop, run against one of the
\* registries: parse the range, query the versions, seed the queue.
Start ==
    /\ pc = "start"
    /\ \E reg \in Registries, version_range \in VersionRanges,
          status \in PsqlStatuses :
        /\ registry' = reg
        /\ psql' = status
        /\ version_req' = ParseReq(version_range)
        /\ IF ParseReq(version_range) = NoneV /\ AfterParseError = "done"
           THEN /\ pc' = AfterParseError
                /\ UNCHANGED <<queue, seeds, pushes, queried, qdepth>>
           ELSE LET req == IF ParseReq(version_range) = NoneV THEN << >>
                           ELSE ParseReq(version_range)[1]
                    q == SeedQueue(psql_stdout(status,
                                       query_crate_versions(reg, start_crate)),
                                   req)
                IN /\ queried' = QueriedAfter(queried, status)
                   /\ queue' = q
                   /\ qdepth' = [i \in 1..Len(q) |-> 0]
                   /\ seeds' = Range(q)
                   /\ pushes' = CountPushes(q, pushes)
                   /\ pc' = AfterQuery(status, "loop")
    /\ THelpersUnchanged
    /\ UNCHANGED <<visited, leaf_nodes, current, dependents,
                   has_valid_dependents, report, files, started,
                   returned_calls, analysed_under, enqueued_under,
                   cur_depth, archives, tool_runs>>

\* The database goes away while the traversal runs.
PsqlBreaks ==
    /\ pc = "loop"
    /\ queue # << >>
    /\ psql = "ok"
    /\ \E status \in PsqlStatuses \ {"ok"} : psql' = status
    /\ THelpersUnchanged
    /\ UNCHANGED <<pc, registry, visited, queue, leaf_nodes, current,
                   dependents, has_valid_dependents, report, files, started,
                   returned_calls, analysed_under, enqueued_under, seeds,
                   pushes, version_req, queried, qdepth, cur_depth, archives,
                   tool_runs>>

\* while let Some(..) = queue.pop_front(): query the dependents of the node.
PopNode ==
    /\ pc = "loop"
    /\ queue # << >>
    /\ current' = Head(queue)
    /\ queue' = Tail(queue)
    /\ cur_depth' = Head(qdepth)
    /\ qdepth' = Tail(qdepth)
    /\ dependents' = psql_stdout(psql, query_dependents(registry, Head(queue)[1]))
    /\ queried' = QueriedAfter(queried, psql)
    /\ has_valid_dependents' = FALSE
    /\ pc' = AfterQuery(psql, "deps")
    /\ THelpersUnchanged
    /\ UNCHANGED <<registry, visited, leaf_nodes, report, files, started,
                   returned_calls, analysed_under, enqueued_under, seeds, pushes,
                   version_req, psql, archives, tool_runs>>

\* One iteration of the for loop whose record does not pass the guard.
SkipDependent ==
    /\ pc = "deps"
    /\ dependents # << >>
    /\ ~Matches(Head(dependents)[3], current[2])
    /\ dependents' = Tail(dependents)
    /\ THelpersUnchanged
    /\ UNCHANGED <<pc, registry, visited, queue, leaf_nodes, current,
                   has_valid_dependents, report, files, started,
                   returned_calls, analysed_under, enqueued_under, seeds, pushes,
                   version_req, psql, queried, qdepth, cur_depth,
                   archives, tool_runs>>

\* A variant that keeps only the newest entry.
VisitedAfter_Reset(v, dep) == {dep}

\* A variant that pushes without inserting.
VisitedAfter_Keep(v, dep) == v

\* What the loop does with visited once the dependent was found to call.
VisitedAfter(v, dep) == v \cup {dep}

\* A variant that pushes every dependent found to call.
ShouldEnqueue_Always(v, dep) == TRUE

\* Whether the dependent is pushed onto the queue.
ShouldEnqueue(v, dep) == dep \notin v

\* A cap on the analyses of one PkgId within a run.  The traversal itself
\* stays below it (a PkgId has fewer parents than that), so the guard only
\* keeps a variant of the loop that enqueues without end finite.
MaxAnalyses == 5

\* One iteration of the for loop whose record passes the guard: analyse the
\* dependent, and enqueue it when it calls the target and is not in visited.
AnalyseDependent ==
    /\ pc = "deps"
    /\ dependents # << >>
    /\ Matches(Head(dependents)[3], current[2])
    /\ LET rec == Head(dependents)
           dep == <<rec[1], rec[2]>>
       IN \E o \in Outcomes, left \in BOOLEAN :
            /\ started[dep] < MaxAnalyses
            /\ report[dep] \in {Unknown, o}
            /\ o.download => ~left
            /\ report' = [report EXCEPT ![dep] = o]
            /\ started' = [started EXCEPT ![dep] = @ + 1]
            /\ tool_runs' = [tool_runs EXCEPT ![dep] = @ + ToolRuns(o)]
            /\ archives' = ArchivesAfter(archives, dep, o, left)
            /\ analysed_under' = analysed_under \cup {<<current, rec>>}
            /\ IF check_function_call(o)
               THEN /\ returned_calls' = returned_calls \cup {dep}
                    /\ has_valid_dependents' = TRUE
                    /\ IF ShouldEnqueue(visited, dep)
                       THEN /\ queue' = push_back(queue, dep)
                            /\ qdepth' = push_back(qdepth, cur_depth + 1)
                            /\ pushes' = [pushes EXCEPT ![dep] = @ + 1]
                            /\ enqueued_under' = enqueued_under \cup {<<current, rec>>}
                            /\ visited' = VisitedAfter(visited, dep)
                       ELSE UNCHANGED <<queue, qdepth, pushes, enqueued_under,
                                        visited>>
               ELSE UNCHANGED <<returned_calls, has_valid_dependents, queue,
                                qdepth, pushes, enqueued_under, visited>>
    /\ dependents' = Tail(dependents)
    /\ THelpersUnchanged
    /\ UNCHANGED <<pc, registry, leaf_nodes, current, files, seeds,
                   version_req, psql, queried, cur_depth>>

\* The end of the loop body: a node without calling dependents is a leaf.
FinishNode ==
    /\ pc = "deps"
    /\ dependents = << >>
    /\ leaf_nodes' = IF has_valid_dependents THEN leaf_nodes
                     ELSE Append(leaf_nodes, current)
    /\ pc' = "loop"
    /\ THelpersUnchanged
    /\ UNCHANGED <<registry, visited, queue, current, dependents,
                   has_valid_dependents, report, files, started,
                   returned_calls, analysed_under, enqueued_under, seeds, pushes,
                   version_req, psql, queried, qdepth, cur_depth,
                   archives, tool_runs>>

(***************************************************************************)
(* process_leaf_nodes_parallel: the worker threads share the vector of     *)
(* leaf nodes under a mutex; each drains its slice and analyses it.  The    *)
(* analysis of one node is one step here; the process-wide working         *)
(* directory that the analyses change is not part of this specification.   *)
(***************************************************************************)
TLoopUnchanged ==
    UNCHANGED <<registry, visited, queue, leaf_nodes, current, dependents,
                has_valid_dependents, analysed_under, enqueued_under, seeds,
                pushes, version_req, psql, queried, qdepth, cur_depth,
                kvars, pvars, wvars>>

\* The queue is empty: clone leaf_nodes into the shared vector and spawn.
SpawnThreads ==
    /\ pc = "loop"
    /\ queue = << >>
    /\ nodes' = leaf_nodes
    /\ nodes_per_thread' = (Len(leaf_nodes) + num_threads - 1) \div num_threads
    /\ th_pc' = [t \in Threads |-> "spawned"]
    /\ pc' = "join"
    /\ TLoopUnchanged
    /\ UNCHANGED <<poisoned, local_nodes, joined, report, files, started,
                   returned_calls,
                   archives, tool_runs>>

DrainStart(t) == t * nodes_per_thread

DrainEnd(t, len) == Min(DrainStart(t) + nodes_per_thread, len)

\* nodes.lock().unwrap() and nodes.drain(start..end) with start <= end.
ThreadDrain(t) ==
    /\ th_pc[t] = "spawned"
    /\ ~poisoned
    /\ LET start == DrainStart(t)
           end == DrainEnd(t, Len(nodes))
       IN /\ start <= end
          /\ local_nodes' = [local_nodes EXCEPT ![t] = SubSeq(nodes, start + 1, end)]
          /\ nodes' = SubSeq(nodes, 1, start) \o SubSeq(nodes, end + 1, Len(nodes))
    /\ th_pc' = [th_pc EXCEPT ![t] = "running"]
    /\ TLoopUnchanged
    /\ UNCHANGED <<pc, nodes_per_thread, poisoned, joined, report, files,
                   started, returned_calls,
                   archives, tool_runs>>

\* drain(start..end) with start > end panics while the guard is held: the
\* mutex is poisoned.
ThreadDrainPanic(t) ==
    /\ th_pc[t] = "spawned"
    /\ ~poisoned
    /\ DrainStart(t) > DrainEnd(t, Len(nodes))
    /\ poisoned' = TRUE
    /\ th_pc' = [th_pc EXCEPT ![t] = "panicked"]
    /\ TLoopUnchanged
    /\ UNCHANGED <<pc, nodes, nodes_per_thread, local_nodes, joined, report,
                   files, started, returned_calls,
                   archives, tool_runs>>

\* nodes.lock().unwrap() on a poisoned mutex panics.
ThreadLockPoisoned(t) ==
    /\ th_pc[t] = "spawned"
    /\ poisoned
    /\ th_pc' = [th_pc EXCEPT ![t] = "panicked"]
    /\ TLoopUnchanged
    /\ UNCHANGED <<pc, nodes, nodes_per_thread, poisoned, local_nodes, joined,
                   report, files, started, returned_calls,
                   archives, tool_runs>>

\* process_leaf_node: write the result file iff the analysis returned Some
\* (create_dir_all and write are taken to succeed; when they fail no file is
\* written).
process_leaf_node(fs, node, o) ==
    IF check_function_call(o) THEN fs \cup {node} ELSE fs

\* for node in local_nodes: analyzer.process_leaf_node(&node, ..).
ThreadProcess(t) ==
    /\ th_pc[t] = "running"
    /\ local_nodes[t] # << >>
    /\ LET node == Head(local_nodes[t])
       IN \E o \in Outcomes, left \in BOOLEAN :
            /\ report[node] \in {Unknown, o}
            /\ o.download => ~left
            /\ report' = [report EXCEPT ![node] = o]
            /\ started' = [started EXCEPT ![node] = @ + 1]
            /\ tool_runs' = [tool_runs EXCEPT ![node] = @ + ToolRuns(o)]
            /\ archives' = ArchivesAfter(archives, node, o, left)
            /\ returned_calls' = IF check_function_call(o)
                                 THEN returned_calls \cup {node}
                                 ELSE returned_calls
            /\ files' = process_leaf_node(files, node, o)
    /\ local_nodes' = [local_nodes EXCEPT ![t] = Tail(@)]
    /\ TLoopUnchanged
    /\ UNCHANGED <<pc, nodes, nodes_per_thread, poisoned, th_pc, joined>>

\* The closure of the thread returns.
ThreadExit(t) ==
    /\ th_pc[t] = "running"
    /\ local_nodes[t] = << >>
    /\ th_pc' = [th_pc EXCEPT ![t] = "finished"]
    /\ TLoopUnchanged
    /\ UNCHANGED <<pc, nodes, nodes_per_thread, poisoned, local_nodes, joined,
                   report, files, started, returned_calls,
                   archives, tool_runs>>

\* handle.join().unwrap() on the next handle: a finished thread is joined,
\* a panicked one makes the main thread panic.
JoinThread ==
    /\ pc = "join"
    /\ joined < num_threads
    /\ th_pc[joined] \in {"finished", "panicked"}
    /\ IF th_pc[joined] = "finished"
       THEN /\ joined' = joined + 1
            /\ pc' = "join"
       ELSE /\ joined' = joined
            /\ pc' = "panicked"
    /\ TLoopUnchanged
    /\ UNCHANGED <<nodes, nodes_per_thread, poisoned, th_pc, local_nodes,
                   report, files, started, returned_calls,
                   archives, tool_runs>>

\* All handles are joined: find_all_dependents returns leaf_nodes.
Return ==
    /\ pc = "join"
    /\ joined = num_threads
    /\ pc' = "done"
    /\ TLoopUnchanged
    /\ UNCHANGED <<nodes, nodes_per_thread, poisoned, th_pc, local_nodes,
                   joined, report, files, started, returned_calls,
                   archives, tool_runs>>

TNext ==
    \/ Start
    \/ PsqlBreaks
    \/ PopNode
    \/ SkipDependent
    \/ AnalyseDependent
    \/ FinishNode
    \/ SpawnThreads
    \/ \E t \in Threads : ThreadDrain(t)
    \/ \E t \in Threads : ThreadDrainPanic(t)
    \/ \E t \in Threads : ThreadLockPoisoned(t)
    \/ \E t \in Threads : ThreadProcess(t)
    \/ \E t \in Threads : ThreadExit(t)
    \/ JoinThread
    \/ Return

\* The steps of the thread that runs find_all_dependents up to the spawn of
\* the workers.
LoopStep ==
    \/ Start
    \/ PopNode
    \/ SkipDependent
    \/ AnalyseDependent
    \/ FinishNode
    \/ SpawnThreads

(***************************************************************************)
(* Properties of the traversal.                                            *)
(***************************************************************************)

\* C1: during a run the visited set only grows: no step of
\* find_all_dependents removes a PkgId that was inserted.
C1_VisitedMonotonic == [][visited \subseteq visited']_vars

\* C1 witness: the run has ended with two PkgIds in visited, the second
\* inserted while the first was there.
C1_Witness == pc = "done" /\ Cardinality(visited) >= 2

\* C2 (as claimed): no PkgId is analysed twice in one run, i.e.
\* check_function_call is started at most once per (name, version).
C2_AnalysedAtMostOnce == \A p \in PkgIds : started[p] <= 1

\* The requirement filter, written from the data model: the record's req is
\* a valid requirement that the parent's exact version satisfies.
ReqAccepts(rec, parent) ==
    /\ parent[2] \in DOMAIN VersionTable
    /\ rec[3] \in DOMAIN ReqTable
    /\ \A i \in 1..Len(ReqTable[rec[3]]) :
          CmpMatches(ReqTable[rec[3]][i], VersionTable[parent[2]])

\* C3: a record is analysed or enqueued under a parent only if its req parses
\* and matches the parent's exact version; a PkgId none of whose records
\* matched a processed parent is not analysed, not enqueued and has no file
\* (unless it is a seed).
C3_OnlyMatchingRecords ==
    /\ \A e \in analysed_under \cup enqueued_under : ReqAccepts(e[2], e[1])
    /\ \A p \in PkgIds \ seeds :
          (started[p] > 0 \/ pushes[p] > 0 \/ p \in files \/ p \in visited)
              => \E e \in analysed_under :
                    /\ <<e[2][1], e[2][2]>> = p
                    /\ ReqAccepts(e[2], e[1])

\* C3 witness: the node s 1.0.0 was processed to its end; its dependent d
\* (req ^1.0) was analysed under it while e (^2.0), f (unparsable) and g
\* (=1.1.0) were passed over.
C3_Witness ==
    /\ pc = "done"
    /\ <<<<"s", "1.0.0">>, <<"d", "0.1.0", "^1.0">>>> \in analysed_under
    /\ started[<<"e", "0.1.0">>] = 0
    /\ started[<<"f", "0.1.0">>] = 0
    /\ <<"g", "0.1.0">> \notin files
    /\ ~(\E e \in analysed_under : e[1] = <<"s", "1.0.0">> /\ e[2][1] = "g")

C5_FilesEqualCalls == pc = "done" => files = returned_calls

\* C6 (as claimed): the analyser is never run on a seed PkgId and no file is
\* emitted for a seed.
C6_SeedsAreRootsOnly == \A p \in seeds : started[p] = 0 /\ p \notin files

(***************************************************************************)
(* Krate::get_crate_dir_path (src/src/krate.rs): tasks materialise crates  *)
(* concurrently under DOWNLOAD_SEMAPHORE and GLOBAL_CRATE_LOCK.            *)
(***************************************************************************)
Tasks == {"t1", "t2", "t3"}

\* The crates the tasks ask for: crates.io names and semver versions.
Krates == {<<"a", "1.0.0">>, <<"a", "1.1.0">>, <<"a-b", "1.0.0">>}

\* The crates each task may ask for.  The tasks run the same code, so the
\* first is given the first crate, the second one of two, the third any.
Asks(t) ==
    CASE t = "t1" -> {<<"a", "1.0.0">>}
      [] t = "t2" -> {<<"a", "1.0.0">>, <<"a", "1.1.0">>}
      [] t = "t3" -> Krates

\* The permits of DOWNLOAD_SEMAPHORE (32 in the source), scaled.
DownloadPermits == 2

\* The iterations of the wait loop of acquire_crate_lock: for _ in 0..40.
MaxWaitPolls == 40

get_crate_file_path(k) == k[1] \o "/" \o k[1] \o "-" \o k[2] \o ".crate"

get_extract_dir_path(k) == k[1] \o "/" \o k[1] \o "-" \o k[2]

\* A variant of the lock key that leaves out the version.
LockKey_NameOnly(k) == k[1]

\* let key = format!("{}-{}", self.name, self.version)
LockKey(k) == k[1] \o "-" \o k[2]

CratePaths == {get_crate_file_path(k) : k \in Krates}

ExtractPaths == {get_extract_dir_path(k) : k \in Krates}

NoKrate == <<"", "">>

KInit ==
    /\ permits = DownloadPermits
    /\ crate_lock = {}
    /\ mutex = "free"
    /\ kpc = [t \in Tasks |-> "idle"]
    /\ krate = [t \in Tasks |-> NoKrate]
    /\ polls = [t \in Tasks |-> 0]
    /\ result = [t \in Tasks |-> "none"]
    /\ crate_file = [f \in CratePaths |-> "absent"]
    /\ extract_dir = [d \in ExtractPaths |-> "absent"]
    /\ inserted = [t \in Tasks |-> FALSE]
    /\ waited = [t \in Tasks |-> FALSE]
    /\ worked = [t \in Tasks |-> FALSE]

\* extract_dir_path.exists() && extract_dir_path.is_dir()
IsDir(k) == extract_dir[get_extract_dir_path(k)] \in {"partial", "dir"}

\* extract_dir_path.exists()
DirExists(k) == extract_dir[get_extract_dir_path(k)] # "absent"

\* A task calls get_crate_dir_path on a crate.
Call(t) ==
    /\ kpc[t] = "idle"
    /\ \E k \in Asks(t) : krate' = [krate EXCEPT ![t] = k]
    /\ kpc' = [kpc EXCEPT ![t] = "permit"]
    /\ UNCHANGED <<permits, crate_lock, mutex, polls, result, crate_file,
                   extract_dir, inserted, waited, worked>>
    /\ UNCHANGED <<tvars, pvars, wvars>>

\* A variant of the semaphore that always hands out a permit.
PermitAvailable_Always(p) == TRUE

\* The semaphore hands out a permit only while one is free.
PermitAvailable(p) == p > 0

\* DOWNLOAD_SEMAPHORE.acquire().await
AcquirePermit(t) ==
    /\ kpc[t] = "permit"
    /\ PermitAvailable(permits)
    /\ permits' = permits - 1
    /\ kpc' = [kpc EXCEPT ![t] = "check"]
    /\ UNCHANGED <<crate_lock, mutex, krate, polls, result, crate_file,
                   extract_dir, inserted, waited, worked>>
    /\ UNCHANGED <<tvars, pvars, wvars>>

\* The extracted directory is checked first: return it when it is there.
CheckDir(t) ==
    /\ kpc[t] = "check"
    /\ IF IsDir(krate[t])
       THEN /\ result' = [result EXCEPT ![t] = "ok"]
            /\ kpc' = [kpc EXCEPT ![t] = "exit"]
       ELSE /\ result' = result
            /\ kpc' = [kpc EXCEPT ![t] = "lock"]
    /\ UNCHANGED <<permits, crate_lock, mutex, krate, polls, crate_file,
                   extract_dir, inserted, waited, worked>>
    /\ UNCHANGED <<tvars, pvars, wvars>>

\* acquire_crate_lock: GLOBAL_CRATE_LOCK.lock().await
LockMutex(t) ==
    /\ kpc[t] = "lock"
    /\ mutex = "free"
    /\ mutex' = t
    /\ kpc' = [kpc EXCEPT ![t] = "locked"]
    /\ UNCHANGED <<permits, crate_lock, krate, polls, result, crate_file,
                   extract_dir, inserted, waited, worked>>
    /\ UNCHANGED <<tvars, pvars, wvars>>

\* A variant of the test that never finds the key.
KeyInFlight_Never(set, key) == FALSE

\* set.contains(key)
KeyInFlight(set, key) == key \in set

\* A variant in which the guard is kept across the wait loop.
GuardAfterDrop_Kept(t) == t

\* drop(set): the holder of the mutex after the guard is dropped.
GuardAfterDrop(t) == "free"

\* acquire_crate_lock, set.contains(key): drop the guard and wait.
LockContended(t) ==
    /\ kpc[t] = "locked"
    /\ KeyInFlight(crate_lock, LockKey(krate[t]))
    /\ mutex' = GuardAfterDrop(t)
    /\ waited' = [waited EXCEPT ![t] = TRUE]
    /\ polls' = [polls EXCEPT ![t] = 0]
    /\ kpc' = [kpc EXCEPT ![t] = "wait"]
    /\ UNCHANGED <<permits, crate_lock, krate, result, crate_file,
                   extract_dir, inserted, worked>>
    /\ UNCHANGED <<tvars, pvars, wvars>>

\* acquire_crate_lock, else branch: insert the key, Ok(true).
LockInsert(t) ==
    /\ kpc[t] = "locked"
    /\ ~KeyInFlight(crate_lock, LockKey(krate[t]))
    /\ crate_lock' = crate_lock \cup {LockKey(krate[t])}
    /\ mutex' = "free"
    /\ inserted' = [inserted EXCEPT ![t] = TRUE]
    /\ kpc' = [kpc EXCEPT ![t] = "download"]
    /\ UNCHANGED <<permits, krate, polls, result, crate_file, extract_dir,
                   waited, worked>>
    /\ UNCHANGED <<tvars, pvars, wvars>>

\* The wait loop: the directory has appeared, Ok(false); the caller returns
\* the path.
WaitFound(t) ==
    /\ kpc[t] = "wait"
    /\ polls[t] < MaxWaitPolls
    /\ IsDir(krate[t])
    /\ result' = [result EXCEPT ![t] = "ok"]
    /\ kpc' = [kpc EXCEPT ![t] = "exit"]
    /\ UNCHANGED <<permits, crate_lock, mutex, krate, polls, crate_file,
                   extract_dir, inserted, waited, worked>>
    /\ UNCHANGED <<tvars, pvars, wvars>>

\* The wait loop: the directory is not there, sleep 500 ms.
WaitSleep(t) ==
    /\ kpc[t] = "wait"
    /\ polls[t] < MaxWaitPolls
    /\ ~IsDir(krate[t])
    /\ polls' = [polls EXCEPT ![t] = @ + 1]
    /\ UNCHANGED <<permits, crate_lock, mutex, kpc, krate, result, crate_file,
                   extract_dir, inserted, waited, worked>>
    /\ UNCHANGED <<tvars, pvars, wvars>>

\* A variant in which a waiter that ran out of polls does the work itself.
AfterWaitTimeout_Process == "download"

\* Where a waiter that ran out of polls goes: "?" returns the error.
AfterWaitTimeout == "exit"

\* The wait loop has run out: Err, propagated by "?".
WaitTimeout(t) ==
    /\ kpc[t] = "wait"
    /\ polls[t] = MaxWaitPolls
    /\ result' = [result EXCEPT ![t] = "err_wait_timeout"]
    /\ kpc' = [kpc EXCEPT ![t] = AfterWaitTimeout]
    /\ UNCHANGED <<permits, crate_lock, mutex, krate, polls, crate_file,
                   extract_dir, inserted, waited, worked>>
    /\ UNCHANGED <<tvars, pvars, wvars>>

\* A variant in which a failure of the inner block returns at once.
AfterFailure_Return == "exit"

\* Where the producer goes when the inner async block yields Err: the block
\* ends, release_crate_lock runs, then the result is returned.
AfterFailure == "release"

\* download() when the archive file is already there: Ok without a download.
DownloadSkip(t) ==
    /\ kpc[t] = "download"
    /\ crate_file[get_crate_file_path(krate[t])] # "absent"
    /\ worked' = [worked EXCEPT ![t] = TRUE]
    /\ kpc' = [kpc EXCEPT ![t] = "unzip"]
    /\ UNCHANGED <<permits, crate_lock, mutex, krate, polls, result,
                   crate_file, extract_dir, inserted, waited>>
    /\ UNCHANGED <<tvars, pvars, wvars>>

\* download(): curl leaves no file, an empty file or the archive.
Download(t) ==
    /\ kpc[t] = "download"
    /\ crate_file[get_crate_file_path(krate[t])] = "absent"
    /\ worked' = [worked EXCEPT ![t] = TRUE]
    /\ \E got \in {"absent", "empty", "data"} :
        /\ crate_file' = [crate_file EXCEPT ![get_crate_file_path(krate[t])] = got]
        /\ IF got = "data"
           THEN /\ kpc' = [kpc EXCEPT ![t] = "unzip"]
                /\ result' = result
           ELSE /\ kpc' = [kpc EXCEPT ![t] = AfterFailure]
                /\ result' = [result EXCEPT ![t] =
                                 IF got = "empty" THEN "err_empty_download"
                                 ELSE "err_download"]
    /\ UNCHANGED <<permits, crate_lock, mutex, krate, polls, extract_dir,
                   inserted, waited>>
    /\ UNCHANGED <<tvars, pvars, wvars>>

\* unzip() up to the tar command: the directory is there already, the
\* archive is missing, or tar is spawned.
Unzip(t) ==
    /\ kpc[t] = "unzip"
    /\ IF DirExists(krate[t])
       THEN /\ kpc' = [kpc EXCEPT ![t] = "validate"]
            /\ result' = result
       ELSE IF crate_file[get_crate_file_path(krate[t])] = "absent"
       THEN /\ kpc' = [kpc EXCEPT ![t] = AfterFailure]
            /\ result' = [result EXCEPT ![t] = "err_unzip"]
       ELSE /\ kpc' = [kpc EXCEPT ![t] = "tar"]
            /\ result' = result
    /\ UNCHANGED <<permits, crate_lock, mutex, krate, polls, crate_file,
                   extract_dir, inserted, waited, worked>>
    /\ UNCHANGED <<tvars, pvars, wvars>>

\* tar -xf is running on a real archive: it creates the top-level entry,
\* a directory that it then fills (or, for a bad archive, a plain file).
TarWrite(t) ==
    /\ kpc[t] = "tar"
    /\ crate_file[get_crate_file_path(krate[t])] = "data"
    /\ extract_dir[get_extract_dir_path(krate[t])] = "absent"
    /\ \E made \in {"partial", "file"} :
        extract_dir' = [extract_dir EXCEPT ![get_extract_dir_path(krate[t])] = made]
    /\ UNCHANGED <<permits, crate_lock, mutex, kpc, krate, polls, result,
                   crate_file, inserted, waited, worked>>
    /\ UNCHANGED <<tvars, pvars, wvars>>

\* tar exits: on failure Err; on success the directory is complete, and
\* unzip() fails if it does not exist.
TarExit(t) ==
    /\ kpc[t] = "tar"
    /\ LET d == get_extract_dir_path(krate[t])
       IN \E success \in BOOLEAN :
            IF ~success
            THEN /\ kpc' = [kpc EXCEPT ![t] = AfterFailure]
                 /\ result' = [result EXCEPT ![t] = "err_unzip"]
                 /\ extract_dir' = extract_dir
            ELSE /\ extract_dir' = [extract_dir EXCEPT ![d] =
                                       IF @ = "partial" THEN "dir" ELSE @]
                 /\ IF extract_dir[d] = "absent"
                    THEN /\ kpc' = [kpc EXCEPT ![t] = AfterFailure]
                         /\ result' = [result EXCEPT ![t] = "err_unzip"]
                    ELSE /\ kpc' = [kpc EXCEPT ![t] = "validate"]
                         /\ result' = result
    /\ UNCHANGED <<permits, crate_lock, mutex, krate, polls, crate_file,
                   inserted, waited, worked>>
    /\ UNCHANGED <<tvars, pvars, wvars>>

\* The check of the unzip path: it must be a readable directory.
Validate(t) ==
    /\ kpc[t] = "validate"
    /\ result' = [result EXCEPT ![t] =
                     IF IsDir(krate[t]) THEN "ok" ELSE "err_not_dir"]
    /\ kpc' = [kpc EXCEPT ![t] = "release"]
    /\ UNCHANGED <<permits, crate_lock, mutex, krate, polls, crate_file,
                   extract_dir, inserted, waited, worked>>
    /\ UNCHANGED <<tvars, pvars, wvars>>

\* release_crate_lock: lock the mutex, remove the key.
ReleaseLock(t) ==
    /\ kpc[t] = "release"
    /\ mutex = "free"
    /\ crate_lock' = crate_lock \ {LockKey(krate[t])}
    /\ kpc' = [kpc EXCEPT ![t] = "exit"]
    /\ UNCHANGED <<permits, mutex, krate, polls, result, crate_file,
                   extract_dir, inserted, waited, worked>>
    /\ UNCHANGED <<tvars, pvars, wvars>>

\* A variant in which a returning call keeps its permit.
PermitsAfterDrop_Leak(p) == p

\* The free permits once _download_permit is dropped.
PermitsAfterDrop(p) == p + 1

\* get_crate_dir_path returns; the permit is dropped.
KReturn(t) ==
    /\ kpc[t] = "exit"
    /\ permits' = PermitsAfterDrop(permits)
    /\ kpc' = [kpc EXCEPT ![t] = "returned"]
    /\ UNCHANGED <<crate_lock, mutex, krate, polls, result, crate_file,
                   extract_dir, inserted, waited, worked>>
    /\ UNCHANGED <<tvars, pvars, wvars>>

\* The steps of one call of get_crate_dir_path after it was made.
KStep(t) ==
    \/ AcquirePermit(t)
    \/ CheckDir(t)
    \/ LockMutex(t)
    \/ LockContended(t)
    \/ LockInsert(t)
    \/ WaitFound(t)
    \/ WaitSleep(t)
    \/ WaitTimeout(t)
    \/ DownloadSkip(t)
    \/ Download(t)
    \/ Unzip(t)
    \/ TarWrite(t)
    \/ TarExit(t)
    \/ Validate(t)
    \/ ReleaseLock(t)
    \/ KReturn(t)

KSteps == \E t \in Tasks : KStep(t)

KNext ==
    \/ \E t \in Tasks : Call(t)
    \/ \E t \in Tasks : AcquirePermit(t)
    \/ \E t \in Tasks : CheckDir(t)
    \/ \E t \in Tasks : LockMutex(t)
    \/ \E t \in Tasks : LockContended(t)
    \/ \E t \in Tasks : LockInsert(t)
    \/ \E t \in Tasks : WaitFound(t)
    \/ \E t \in Tasks : WaitSleep(t)
    \/ \E t \in Tasks : WaitTimeout(t)
    \/ \E t \in Tasks : DownloadSkip(t)
    \/ \E t \in Tasks : Download(t)
    \/ \E t \in Tasks : Unzip(t)
    \/ \E t \in Tasks : TarWrite(t)
    \/ \E t \in Tasks : TarExit(t)
    \/ \E t \in Tasks : Validate(t)
    \/ \E t \in Tasks : ReleaseLock(t)
    \/ \E t \in Tasks : KReturn(t)

(***************************************************************************)
(* Krate::patch_cargo_toml_with_parent (src/src/krate.rs): the manifest of *)
(* a dependent is rewritten to pin the parent.  Text is a sequence of      *)
(* symbols: a punctuation mark, a blank, a line terminator character or a  *)
(* word of the manifest ("dependencies", "version", ...) is one symbol.    *)
(***************************************************************************)

\* char::is_whitespace, on the symbols used here.
Whitespace == {" ", "\t", "\r", "\n"}

\* str::starts_with
starts_with(s, prefix) ==
    /\ Len(prefix) <= Len(s)
    /\ SubSeq(s, 1, Len(prefix)) = prefix

RECURSIVE trim_start(_)
trim_start(s) ==
    IF s # << >> /\ Head(s) \in Whitespace THEN trim_start(Tail(s)) ELSE s

RECURSIVE trim_end(_)
trim_end(s) ==
    IF s # << >> /\ s[Len(s)] \in Whitespace
    THEN trim_end(SubSeq(s, 1, Len(s) - 1))
    ELSE s

\* str::trim
trim(s) == trim_end(trim_start(s))

\* The position of the first line feed of the text, 0 when it has none.
FirstLineFeed(c) ==
    IF \E i \in 1..Len(c) : c[i] = "\n"
    THEN CHOOSE i \in 1..Len(c) :
            c[i] = "\n" /\ \A j \in 1..(i - 1) : c[j] # "\n"
    ELSE 0

\* A line that ended in a line feed loses one carriage return before it.
StripCarriageReturn(l) ==
    IF l # << >> /\ l[Len(l)] = "\r" THEN SubSeq(l, 1, Len(l) - 1) ELSE l

\* str::lines: the text is cut after every line feed; a piece that ends in
\* a line feed loses it and one carriage return before it; a last piece
\* without a line feed is a line as it stands; no empty last line.
RECURSIVE lines(_)
lines(c) ==
    IF c = << >> THEN << >>
    ELSE LET n == FirstLineFeed(c)
         IN IF n = 0 THEN <<c>>
            ELSE <<StripCarriageReturn(SubSeq(c, 1, n - 1))>>
                    \o lines(SubSeq(c, n + 1, Len(c)))

\* [String]::join
RECURSIVE join(_, _)
join(ls, sep) ==
    IF ls = << >> THEN << >>
    ELSE IF Len(ls) = 1 THEN ls[1]
    ELSE ls[1] \o sep \o join(Tail(ls), sep)

\* "[dependencies]"
DependenciesHeader == <<"[", "dependencies", "]">>

\* format!("[dependencies.{}]", dep_name)
SubTableHeader(dep_name) == <<"[", "dependencies", ".">> \o dep_name \o <<"]">>

\* A variant of the inline entry that keeps a caret requirement.
InlineEntry_Caret(dep_name, dep_version) ==
    dep_name \o <<" ", "=", " ", "\"", "^">> \o dep_version \o <<"\"">>

\* format!("{} = \"={}\"", dep_name, dep_version)
InlineEntry(dep_name, dep_version) ==
    dep_name \o <<" ", "=", " ", "\"", "=">> \o dep_version \o <<"\"">>

\* format!("version = \"={}\"", dep_version)
VersionEntry(dep_version) ==
    <<"version", " ", "=", " ", "\"", "=">> \o dep_version \o <<"\"">>

\* A variant in which no table header ends the dependency block.
EntersOtherTable_Never(trimmed, dep_name) == FALSE

\* The line opens another table: it starts with '[' and with neither
\* "[dependencies]" nor "[dependencies.<dep_name>]".
EntersOtherTable(trimmed, dep_name) ==
    /\ starts_with(trimmed, <<"[">>)
    /\ ~starts_with(trimmed, DependenciesHeader)
    /\ ~starts_with(trimmed, SubTableHeader(dep_name))

\* A variant that keeps a line without its surrounding blanks.
KeepLine_Trimmed(line) == trim(line)

\* new_lines.push(line.to_string()): a line that is no entry of the
\* dependency is kept as it is.
KeepLine(line) == line

\* The loop of patch_dependency_version_in_toml over the lines, with its
\* flags in_dependencies and in_dep_table; the result is new_lines.  (The
\* flag "modified" only feeds a log message.)
RECURSIVE PatchLines(_, _, _, _, _)
PatchLines(ls, in_dependencies, in_dep_table, dep_name, dep_version) ==
    IF ls = << >> THEN << >>
    ELSE
      LET line == Head(ls)
          trimmed == trim(line)
      IN
        IF /\ starts_with(trimmed, DependenciesHeader)
           /\ ~starts_with(trimmed, SubTableHeader(dep_name))
        THEN <<line>> \o PatchLines(Tail(ls), TRUE, FALSE, dep_name, dep_version)
        ELSE IF trimmed = SubTableHeader(dep_name)
        THEN <<line>> \o PatchLines(Tail(ls), FALSE, TRUE, dep_name, dep_version)
        ELSE
          LET other == EntersOtherTable(trimmed, dep_name)
              in_deps == IF other THEN FALSE ELSE in_dependencies
              in_tab == IF other THEN FALSE ELSE in_dep_table
              rest == PatchLines(Tail(ls), in_deps, in_tab, dep_name, dep_version)
          IN
            IF /\ in_deps
               /\ \/ starts_with(trimmed, dep_name \o <<" ">>)
                  \/ starts_with(trimmed, dep_name \o <<"=">>)
            THEN <<InlineEntry(dep_name, dep_version)>> \o rest
            ELSE IF in_tab /\ starts_with(trimmed, <<"version">>)
            THEN <<VersionEntry(dep_version)>> \o rest
            ELSE <<KeepLine(line)>> \o rest

patch_dependency_version_in_toml(toml_content, dep_name, dep_version) ==
    join(PatchLines(lines(toml_content), FALSE, FALSE, dep_name, dep_version),
         <<"\n">>)

\* The lines a manifest is made of here.
ManifestLines ==
    { <<"[", "dependencies", "]">>,
      <<"[", "dev-dependencies", "]">>,
      <<"[", "target", ".", "dependencies", "]">>,
      <<"[", "dependencies", ".", "p", "]">>,
      <<"[", "dependencies", ".", "q", "]">>,
      <<"p", " ", "=", " ", "\"", "1", "\"">>,
      <<"p", "=", "{", " ", "version", " ", "=", " ", "\"", "1", "\"", " ", "}">>,
      <<"p", "q", " ", "=", " ", "\"", "1", "\"">>,
      <<" ", "version", " ", "=", " ", "\"", "1", "\"">>,
      <<"path", " ", "=", " ", "\"", "x", "\"">> }

\* What follows a line: LF, CRLF, or a carriage return and CRLF.
Terminators == {<<"\n">>, <<"\r", "\n">>, <<"\r", "\r", "\n">>}

\* The most lines of a manifest.
MaxLines == 3

\* The text of a manifest: its lines, each followed by the terminator, the
\* last one only if the text ends with a terminator.
Assemble(body, term, final) ==
    IF body = << >> THEN << >>
    ELSE join(body, term) \o (IF final THEN term ELSE << >>)

\* The manifests of the crate directory: missing, or one of the texts.
Manifests ==
    {NoneV} \cup
    { Some(Assemble(body, term, final)) :
        body \in UNION {[1..n -> ManifestLines] : n \in 0..MaxLines},
        term \in Terminators,
        final \in BOOLEAN }

\* The parents the manifest is patched for: <<parent_name, parent_version>>.
Parents == {<< <<"p">>, <<"2">> >>}

\* The I/O fault of one call: none; the read of line 330 alone fails; the
\* reads fail; the write fails.
PatchFaults == {"none", "first_read", "read", "write"}

Ok(v) == [tag |-> "Ok", value |-> v]

Err == [tag |-> "Err", value |-> NoneV]

NoReturn == [tag |-> "none", value |-> NoneV]

PInit ==
    /\ manifest = NoneV
    /\ pdep = << << >>, << >> >>
    /\ pbefore = NoneV
    /\ pret = NoReturn
    /\ pfault = "none"
    /\ pphase = "init"

\* tokio_fs::read_to_string(&cargo_toml_path): the content, unless the file
\* is missing or the read fails.
read_to_string(file, failed) == IF failed THEN NoneV ELSE file

\* A variant in which a manifest that cannot be read is created empty and
\* the call reports success.
AfterReadError_Create(file) == [ok |-> TRUE, file |-> Some(<< >>)]

\* read_to_string(...).context(...)? returns the error; nothing is written.
AfterReadError(file) == [ok |-> FALSE, file |-> file]

\* patch_single_dependency: read, patch, write when the text has changed.
\* Yields whether it returned Ok and the file it leaves.
patch_single_dependency(file, fault, dep_name, dep_version) ==
    LET read == read_to_string(file, fault = "read")
    IN IF read = NoneV THEN AfterReadError(file)
       ELSE LET content == read[1]
                new_content ==
                    patch_dependency_version_in_toml(content, dep_name, dep_version)
            IN IF new_content # content
               THEN IF fault = "write"
                    THEN [ok |-> FALSE, file |-> file]
                    ELSE [ok |-> TRUE, file |-> Some(new_content)]
               ELSE [ok |-> TRUE, file |-> file]

\* result.map(|_| original_content)
PatchReturn(original_content) == Ok(original_content)

\* Krate::patch_cargo_toml_with_parent: what it returns and the file it leaves.
patch_cargo_toml_with_parent(file, fault, parent_name, parent_version) ==
    LET original_content == read_to_string(file, fault \in {"first_read", "read"})
        patched == patch_single_dependency(file, fault, parent_name, parent_version)
    IN [ret |-> IF patched.ok THEN PatchReturn(original_content) ELSE Err,
        file |-> patched.file]

\* A crate directory with its manifest, and the parent to pin.
ChooseManifest ==
    /\ pphase = "init"
    /\ manifest' \in Manifests
    /\ pdep' \in Parents
    /\ pbefore' = manifest'
    /\ pphase' = "chosen"
    /\ UNCHANGED <<pret, pfault>>
    /\ UNCHANGED <<tvars, kvars, wvars>>

\* One call of patch_cargo_toml_with_parent; a second call follows a first
\* that returned Ok.
PatchCargoToml ==
    /\ pphase = "chosen" \/ (pphase = "once" /\ pret.tag = "Ok")
    /\ \E fault \in PatchFaults :
          LET out == patch_cargo_toml_with_parent(manifest, fault, pdep[1], pdep[2])
          IN /\ manifest' = out.file
             /\ pret' = out.ret
             /\ pfault' = fault
    /\ pbefore' = manifest
    /\ pphase' = IF pphase = "chosen" THEN "once" ELSE "twice"
    /\ UNCHANGED pdep
    /\ UNCHANGED <<tvars, kvars, wvars>>

PNext == ChooseManifest \/ PatchCargoToml

(***************************************************************************)
(* The working directory in the leaf phase.  Two workers of                *)
(* process_leaf_nodes_parallel each run process_leaf_node on a leaf of     *)
(* their own; check_function_call moves the working directory of the      *)
(* process, which the threads share, and names its files relative to it.   *)
(* A path is the sequence of its components; an entry of disk is           *)
(* <<kind, directory, crate>>: the archive <crate>.crate, the extracted    *)
(* directory <crate> or the report target/<crate>-callers.json, each      *)
(* inside directory.                                                       *)
(***************************************************************************)
Workers == {0, 1}

\* The leaf of each worker, as the "<name>-<version>" of its file names.
WorkerCrate(w) == IF w = 0 THEN "a-1.0.0" ELSE "b-1.0.0"

\* The directory the run was started in.
StartDir == <<"work">>

\* std::env::temp_dir()
TempDir == <<"tmp">>

\* The directory ".." names.
Parent(path) ==
    IF path = << >> THEN << >> ELSE SubSeq(path, 1, Len(path) - 1)

\* Path::new(relative).exists() and friends: a relative name is looked up
\* in the working directory of the process.
Here(kind, w) == <<kind, cwd, WorkerCrate(w)>>

\* The path lies in the directory or below it.
Below(path, dir) ==
    /\ Len(path) >= Len(dir)
    /\ SubSeq(path, 1, Len(dir)) = dir

WInit ==
    /\ cwd = StartDir
    /\ wpc = [w \in Workers |-> "save"]
    /\ original_dir = [w \in Workers |-> << >>]
    /\ disk = {}
    /\ tool_dir = [w \in Workers |-> NoneV]

\* let original_dir = std::env::current_dir()
WSaveDir(w) ==
    /\ wpc[w] = "save"
    /\ original_dir' = [original_dir EXCEPT ![w] = cwd]
    /\ wpc' = [wpc EXCEPT ![w] = "cd_temp"]
    /\ UNCHANGED <<cwd, disk, tool_dir>>
    /\ UNCHANGED <<tvars, kvars, pvars>>

\* download_and_extract_crate: set_current_dir(&temp_dir)
WCdTemp(w) ==
    /\ wpc[w] = "cd_temp"
    /\ cwd' = TempDir
    /\ wpc' = [wpc EXCEPT ![w] = "download"]
    /\ UNCHANGED <<original_dir, disk, tool_dir>>
    /\ UNCHANGED <<tvars, kvars, pvars>>

\* The directory is there: return true; else curl -o <crate>.crate unless
\* the file is there.
WDownload(w) ==
    /\ wpc[w] = "download"
    /\ IF Here("dir", w) \in disk
       THEN /\ disk' = disk
            /\ wpc' = [wpc EXCEPT ![w] = "cd_crate"]
       ELSE /\ disk' = disk \cup {Here("archive", w)}
            /\ wpc' = [wpc EXCEPT ![w] = "extract"]
    /\ UNCHANGED <<cwd, original_dir, tool_dir>>
    /\ UNCHANGED <<tvars, kvars, pvars>>

\* tar -xf <crate>.crate: it fails when the file is not in the working
\* directory, and the function returns false.
WExtract(w) ==
    /\ wpc[w] = "extract"
    /\ IF Here("archive", w) \in disk
       THEN /\ disk' = disk \cup {Here("dir", w)}
            /\ wpc' = [wpc EXCEPT ![w] = "cd_crate"]
       ELSE /\ disk' = disk
            /\ wpc' = [wpc EXCEPT ![w] = "restore_none"]
    /\ UNCHANGED <<cwd, original_dir, tool_dir>>
    /\ UNCHANGED <<tvars, kvars, pvars>>

\* set_current_dir(&crate_dir): on failure restore and return None.
WCdCrate(w) ==
    /\ wpc[w] = "cd_crate"
    /\ IF Here("dir", w) \in disk
       THEN /\ cwd' = Append(cwd, WorkerCrate(w))
            /\ wpc' = [wpc EXCEPT ![w] = "tool"]
       ELSE /\ cwd' = cwd
            /\ wpc' = [wpc EXCEPT ![w] = "restore_none"]
    /\ UNCHANGED <<original_dir, disk, tool_dir>>
    /\ UNCHANGED <<tvars, kvars, pvars>>

\* call-cg4rs runs in the working directory; on a non-zero exit the
\* function restores and returns None, else it reads target/callers.json
\* (taken to report callers).
WRunTool(w) ==
    /\ wpc[w] = "tool"
    /\ tool_dir' = [tool_dir EXCEPT ![w] = Some(cwd)]
    /\ \E exit_ok \in BOOLEAN :
          wpc' = [wpc EXCEPT ![w] = IF exit_ok THEN "cd_up" ELSE "restore_none"]
    /\ UNCHANGED <<cwd, original_dir, disk>>
    /\ UNCHANGED <<tvars, kvars, pvars>>

\* set_current_dir("..")
WCdUp(w) ==
    /\ wpc[w] = "cd_up"
    /\ cwd' = Parent(cwd)
    /\ wpc' = [wpc EXCEPT ![w] = "cleanup"]
    /\ UNCHANGED <<original_dir, disk, tool_dir>>
    /\ UNCHANGED <<tvars, kvars, pvars>>

\* remove_file("<crate>.crate") and rm -rf <crate>, both relative.
WCleanup(w) ==
    /\ wpc[w] = "cleanup"
    /\ disk' = {e \in disk :
                  /\ e # Here("archive", w)
                  /\ e # Here("dir", w)
                  /\ ~Below(e[2], Append(cwd, WorkerCrate(w)))}
    /\ wpc' = [wpc EXCEPT ![w] = "restore_some"]
    /\ UNCHANGED <<cwd, original_dir, tool_dir>>
    /\ UNCHANGED <<tvars, kvars, pvars>>

\* set_current_dir(&original_dir), then return Some(content) or None.
WRestore(w) ==
    /\ wpc[w] \in {"restore_some", "restore_none"}
    /\ cwd' = original_dir[w]
    /\ wpc' = [wpc EXCEPT ![w] =
                  IF wpc[w] = "restore_some" THEN "write" ELSE "finished"]
    /\ UNCHANGED <<original_dir, disk, tool_dir>>
    /\ UNCHANGED <<tvars, kvars, pvars>>

\* process_leaf_node: current_dir().join("target").join(result_filename),
\* create_dir_all and write.
WWrite(w) ==
    /\ wpc[w] = "write"
    /\ disk' = disk \cup {Here("report", w)}
    /\ wpc' = [wpc EXCEPT ![w] = "finished"]
    /\ UNCHANGED <<cwd, original_dir, tool_dir>>
    /\ UNCHANGED <<tvars, kvars, pvars>>

WNext ==
    \/ \E w \in Workers : WSaveDir(w)
    \/ \E w \in Workers : WCdTemp(w)
    \/ \E w \in Workers : WDownload(w)
    \/ \E w \in Workers : WExtract(w)
    \/ \E w \in Workers : WCdCrate(w)
    \/ \E w \in Workers : WRunTool(w)
    \/ \E w \in Workers : WCdUp(w)
    \/ \E w \in Workers : WCleanup(w)
    \/ \E w \in Workers : WRestore(w)
    \/ \E w \in Workers : WWrite(w)

Init == TInit /\ KInit /\ PInit /\ WInit

SpecTraversal == Init /\ [][TNext]_vars

\* The traversal when every query, download and tool invocation returns:
\* the thread of find_all_dependents is not stopped for ever.
SpecTraversalFair == Init /\ [][TNext]_vars /\ WF_vars(LoopStep)

SpecKrate == Init /\ [][KNext]_vars

\* get_crate_dir_path under fair scheduling: while some call can take a
\* step (the runtime polls it, its subprocess ends), a step is taken.
SpecKrateFair == Init /\ [][KNext]_vars /\ WF_vars(KSteps)

SpecPatch == Init /\ [][PNext]_vars

SpecWorkdir == Init /\ [][WNext]_vars

(***************************************************************************)
(* Properties of get_crate_dir_path.                                       *)
(***************************************************************************)

\* The task is between the insertion of its key and release_crate_lock.
InSection(t) == kpc[t] \in {"download", "unzip", "tar", "validate", "release"}

Producers(k) == {t \in Tasks : InSection(t) /\ krate[t] = k}

\* C7: for every interleaving, at most one task at a time is inside the
\* download/extract section of a PkgId; a caller that found the key taken
\* never downloads or extracts, it only waits and returns.
C7_OneProducerPerPkg ==
    /\ \A k \in Krates : Cardinality(Producers(k)) <= 1
    /\ \A t \in Tasks :
          waited[t] => /\ ~worked[t]
                       /\ kpc[t] \in {"wait", "exit", "returned"}

\* C7 witness: one task runs tar for a PkgId while a second waits for the
\* same PkgId's directory.
C7_Witness ==
    \E t, u \in Tasks :
        /\ t # u
        /\ krate[t] = krate[u]
        /\ kpc[t] = "tar"
        /\ kpc[u] = "wait"

\* C8: leaving acquire_crate_lock, the caller is the producer iff no other
\* task holds an in-flight entry for the same (name, version); the in-flight
\* set holds one key per producing PkgId, and distinct PkgIds have distinct
\* keys.
C8_ProducerIffNoEqualPkg ==
    /\ [](/\ crate_lock = {LockKey(krate[t]) : t \in {u \in Tasks : InSection(u)}}
          /\ \A k1, k2 \in Krates : LockKey(k1) = LockKey(k2) => k1 = k2)
    /\ [][\A t \in Tasks :
            (kpc[t] = "locked" /\ kpc'[t] # "locked")
                => (kpc'[t] = "download"
                      <=> ~(\E u \in Tasks \ {t} :
                              InSection(u) /\ krate[u] = krate[t]))]_vars

\* C8 witness: two tasks have left acquire_crate_lock as producers of PkgIds
\* with the same name and different versions and are in the section at the
\* same time.
C8_Witness ==
    \E t, u \in Tasks :
        /\ kpc[t] = "tar" /\ kpc[u] = "download"
        /\ krate[t][1] = krate[u][1]
        /\ krate[t][2] # krate[u][2]

\* C9: a task that inserted its key removes it before get_crate_dir_path
\* returns, on success and on every failure path; so the in-flight set holds
\* exactly the keys of the tasks inside the section, and it is empty
\* whenever no call is in progress.
C9_KeyRemovedBeforeReturn ==
    /\ \A t \in Tasks :
          (inserted[t] /\ kpc[t] \in {"exit", "returned"})
              => \/ LockKey(krate[t]) \notin crate_lock
                 \/ \E u \in Tasks \ {t} : InSection(u) /\ krate[u] = krate[t]
    /\ (\A t \in Tasks : kpc[t] \in {"idle", "returned"}) => crate_lock = {}

\* C9 witness: three producers have returned, one after an empty download,
\* one after a failed extraction, one after an invalid directory.
C9_Witness ==
    /\ \A t \in Tasks : kpc[t] = "returned" /\ inserted[t]
    /\ {result[t] : t \in Tasks} = {"err_empty_download", "err_unzip", "err_not_dir"}

\* C10: a caller that found its key in the in-flight set polls at most
\* MaxWaitPolls times, sleeps only while the directory is missing, leaves
\* the loop with the directory when a poll sees it and with the timeout
\* error when the polls are used up, and never inserts the key, downloads
\* or extracts.
C10_WaiterOnlyPolls ==
    /\ [](\A t \in Tasks :
            waited[t] => /\ polls[t] <= MaxWaitPolls
                         /\ ~inserted[t]
                         /\ ~worked[t]
                         /\ LockKey(krate[t]) \in crate_lock
                               => \E u \in Tasks \ {t} : InSection(u)
                         /\ result[t] \in {"none", "ok", "err_wait_timeout"})
    /\ [][\A t \in Tasks :
            /\ (kpc[t] = "wait" /\ kpc'[t] # "wait")
                  => /\ kpc'[t] = "exit"
                     /\ \/ result'[t] = "ok" /\ IsDir(krate[t])
                        \/ /\ result'[t] = "err_wait_timeout"
                           /\ polls[t] = MaxWaitPolls
            /\ (kpc[t] = "wait" /\ polls'[t] # polls[t])
                  => /\ polls'[t] = polls[t] + 1
                     /\ ~IsDir(krate[t])]_vars

\* C10 witness: a waiter has returned the timeout error after the producer
\* of its PkgId failed and released the key.
C10_Witness ==
    \E t \in Tasks :
        /\ waited[t]
        /\ kpc[t] = "returned"
        /\ result[t] = "err_wait_timeout"
        /\ polls[t] = MaxWaitPolls
        /\ LockKey(krate[t]) \notin crate_lock
        /\ ~IsDir(krate[t])

\* C11 (as claimed): a zero-byte archive is never extracted: a producer for
\* which download() returned Ok, and which therefore goes on to unzip() and
\* tar, never has a zero-byte archive file; with a zero-byte archive the call
\* has failed with the empty-download error instead.
C11_NoZeroByteExtraction ==
    \A t \in Tasks :
        kpc[t] \in {"unzip", "tar"}
            => crate_file[get_crate_file_path(krate[t])] # "empty"

\* The tasks that hold a permit of DOWNLOAD_SEMAPHORE: from the acquire to
\* the return of get_crate_dir_path.
PermitHolders == {t \in Tasks : kpc[t] \notin {"idle", "permit", "returned"}}

\* C12: at most DownloadPermits tasks are inside the download/extract
\* section; the free permits and the tasks between acquire and return always
\* add up to DownloadPermits, so a task keeps its permit through download and
\* extract and has given it back once it has returned, on every path.
C12_PermitsCapSection ==
    /\ permits \in 0..DownloadPermits
    /\ Cardinality({t \in Tasks : InSection(t)}) <= DownloadPermits
    /\ permits + Cardinality(PermitHolders) = DownloadPermits
    /\ \A t \in Tasks : InSection(t) => t \in PermitHolders

\* C12 witness: every permit is taken by a task running tar while another
\* task waits for a permit.
C12_Witness ==
    /\ permits = 0
    /\ \E t \in Tasks : kpc[t] = "permit"
    /\ Cardinality({t \in Tasks : kpc[t] = "tar"}) = DownloadPermits

\* C13: the mutex of GLOBAL_CRATE_LOCK is held only between lock() and the
\* read or update of the set: a task that sleeps in the wait loop, checks the
\* filesystem, downloads or extracts does not hold it.
C13_MutexOnlyAroundSet ==
    /\ mutex \in Tasks \cup {"free"}
    /\ \A t \in Tasks :
          /\ mutex = t => kpc[t] = "locked"
          /\ kpc[t] \in {"check", "wait", "download", "unzip", "tar", "validate"}
                => mutex # t

\* C13 witness: a caller is in the wait loop, having slept at least once,
\* while another task holds the mutex to look at the set.
C13_Witness ==
    \E t, u \in Tasks :
        /\ kpc[t] = "wait" /\ polls[t] > 0
        /\ kpc[u] = "locked" /\ mutex = u

(***************************************************************************)
(* Properties of patch_cargo_toml_with_parent.  The manifest is read here  *)
(* as TOML reads it: a line whose first non-blank symbol is '[' is a table *)
(* header, and every other line belongs to the table of the last header    *)
(* before it.                                                              *)
(***************************************************************************)

IsHeader(line) == starts_with(trim(line), <<"[">>)

\* The name of the table a header line opens: what stands between the '['
\* and the first ']'.
TableOf(line) ==
    LET t == trim(line)
        close == {i \in 1..Len(t) : t[i] = "]"}
        n == IF close = {} THEN Len(t) + 1
             ELSE CHOOSE i \in close : \A j \in close : i <= j
    IN SubSeq(t, 2, n - 1)

\* The table line i belongs to; << >> before the first header.
EnclosingTable(ls, i) ==
    LET hs == {j \in 1..(i - 1) : IsHeader(ls[j])}
    IN IF hs = {} THEN << >>
       ELSE TableOf(ls[CHOOSE j \in hs : \A k \in hs : k <= j])

\* The line is "key = ..." (blanks around the '=' optional).
IsEntryOf(line, key) ==
    LET t == trim(line)
    IN /\ ~IsHeader(line)
       /\ starts_with(t, key)
       /\ starts_with(trim_start(SubSeq(t, Len(key) + 1, Len(t))), <<"=">>)

DependenciesTable == <<"dependencies">>

SubTable(name) == <<"dependencies", ".">> \o name

\* The manifest text declares the dependency: inline under [dependencies]
\* or as the sub-table [dependencies.name].
Declares(c, name) ==
    LET ls == lines(c)
    IN \E i \in 1..Len(ls) :
          \/ IsHeader(ls[i]) /\ TableOf(ls[i]) = SubTable(name)
          \/ IsEntryOf(ls[i], name) /\ EnclosingTable(ls, i) = DependenciesTable

\* name = "=version"
PinnedInline(name, version) ==
    name \o <<" ", "=", " ", "\"", "=">> \o version \o <<"\"">>

\* version = "=version"
PinnedVersion(version) ==
    <<"version", " ", "=", " ", "\"", "=">> \o version \o <<"\"">>

\* A call has returned Ok on a manifest that was there.
PatchedOk ==
    /\ pphase \in {"once", "twice"}
    /\ pret.tag = "Ok"
    /\ pbefore # NoneV
    /\ manifest # NoneV

\* C14: after a call that returned Ok, every line that was an inline entry
\* of parent_name under [dependencies] reads exactly
\* parent_name = "=<parent_version>", and every version line that was inside
\* the table opened by the line [dependencies.parent_name] reads exactly
\* version = "=<parent_version>".
C14_EntryReplacedExactly ==
    PatchedOk =>
        LET ls == lines(pbefore[1])
            out == lines(manifest[1])
        IN \A i \in 1..Len(ls) :
              /\ (IsEntryOf(ls[i], pdep[1])
                    /\ EnclosingTable(ls, i) = DependenciesTable)
                    => /\ i <= Len(out)
                       /\ out[i] = PinnedInline(pdep[1], pdep[2])
              /\ (/\ IsEntryOf(ls[i], <<"version">>)
                  /\ \E h \in 1..(i - 1) :
                        /\ trim(ls[h]) = <<"[", "dependencies", ".">> \o pdep[1] \o <<"]">>
                        /\ \A k \in (h + 1)..(i - 1) : ~IsHeader(ls[k]))
                    => /\ i <= Len(out)
                       /\ out[i] = PinnedVersion(pdep[2])

\* C14 witness: a manifest with CRLF line ends whose [dependencies] table
\* held the inline table entry of the parent has been rewritten.
C14_Witness ==
    /\ PatchedOk
    /\ pphase = "once"
    /\ manifest # pbefore
    /\ \E i \in 1..Len(lines(pbefore[1])) :
          /\ starts_with(lines(pbefore[1])[i], <<"p", "=", "{">>)
          /\ EnclosingTable(lines(pbefore[1]), i) = DependenciesTable
    /\ \E i \in 1..Len(pbefore[1]) : pbefore[1][i] = "\r"

\* C15 (as claimed): a call on a manifest that has no dependency entry named
\* parent_name leaves the file as it was, byte for byte.
C15_NoEntryNoWrite ==
    (/\ pphase \in {"once", "twice"}
     /\ pbefore # NoneV
     /\ ~Declares(pbefore[1], pdep[1]))
        => manifest = pbefore

\* C16 (as claimed): a call that returns Ok returns None when the manifest
\* has no dependency entry named parent_name, and returns the prior contents
\* only when the entry was there and the manifest was rewritten.
C16_NoneUnlessRewritten ==
    PatchedOk =>
        /\ ~Declares(pbefore[1], pdep[1]) => pret.value = NoneV
        /\ pret.value # NoneV => /\ Declares(pbefore[1], pdep[1])
                                 /\ pret.value = pbefore
                                 /\ manifest # pbefore

\* C17 (as claimed): a second call with the same parameters, after a first
\* that returned Ok, leaves the file as the first call left it.
C17_PatchIdempotent ==
    (pphase = "twice" /\ pret.tag = "Ok") => manifest = pbefore

\* Line i lies outside [dependencies] and [dependencies.name].
Outside(ls, i, name) ==
    LET tb == IF IsHeader(ls[i]) THEN TableOf(ls[i]) ELSE EnclosingTable(ls, i)
    IN tb \notin {DependenciesTable, SubTable(name)}

\* C18: after a call that returned Ok, every line outside [dependencies] and
\* [dependencies.parent_name] (a header of another table, a line of
\* [dev-dependencies], of a target-specific table, of another dependency's
\* sub-table, or a line before the first header) has the text it had, in
\* whatever order the tables come.
C18_OtherTablesUntouched ==
    PatchedOk =>
        LET ls == lines(pbefore[1])
            out == lines(manifest[1])
        IN \A i \in 1..Len(ls) :
              Outside(ls, i, pdep[1])
                  => /\ i <= Len(out)
                     /\ trim(out[i]) = trim(ls[i])

\* C18 witness: a call returned Ok on a manifest whose [dependencies] header
\* is followed by [dev-dependencies] and, inside it, an entry of the parent.
C18_Witness ==
    /\ PatchedOk
    /\ lines(pbefore[1]) = << <<"[", "dependencies", "]">>,
                              <<"[", "dev-dependencies", "]">>,
                              <<"p", " ", "=", " ", "\"", "1", "\"">> >>
    /\ lines(manifest[1]) = lines(pbefore[1])

\* The manifest text holds an exact-version pin of the dependency.
HasPin(c, name, version) ==
    LET ls == lines(c)
    IN \E i \in 1..Len(ls) :
          \/ /\ trim(ls[i]) = PinnedInline(name, version)
             /\ EnclosingTable(ls, i) = DependenciesTable
          \/ /\ trim(ls[i]) = PinnedVersion(version)
             /\ EnclosingTable(ls, i) = SubTable(name)

\* C19 (as claimed): after a call that returned Ok the manifest holds the
\* pin "=<parent.version>" of parent.name iff parent.name was declared in
\* [dependencies] or as the sub-table [dependencies.<parent.name>], with or
\* without a version line.
C19_PinIffDeclared ==
    PatchedOk =>
        (HasPin(manifest[1], pdep[1], pdep[2]) <=> Declares(pbefore[1], pdep[1]))

\* C20: a call on a manifest that is missing or cannot be read, or whose
\* write fails, returns an error, and a missing manifest is still missing
\* after the call.
C20_IoFailureIsError ==
    pphase \in {"once", "twice"} =>
        /\ (pbefore = NoneV \/ pfault = "read") => pret.tag = "Err"
        /\ (/\ pbefore # NoneV
            /\ pfault = "write"
            /\ patch_dependency_version_in_toml(pbefore[1], pdep[1], pdep[2])
                  # pbefore[1])
              => pret.tag = "Err"
        /\ pbefore = NoneV => manifest = NoneV
        /\ pret.tag = "Err" => manifest = pbefore

\* C20 witness: a second call, after one that rewrote the manifest, has
\* returned the error of a failed read.
C20_Witness ==
    /\ pphase = "twice"
    /\ pfault = "read"
    /\ pret.tag = "Err"
    /\ manifest # NoneV
    /\ HasPin(manifest[1], pdep[1], pdep[2])

(***************************************************************************)
(* Properties of the traversal: patching, cleanup, order and failures.     *)
(***************************************************************************)

\* C21: a dependent is on the queue only after patch_cargo_toml_with_parent
\* has pinned its parent in the dependent's manifest and returned Ok: while
\* no manifest was patched, nothing was enqueued under a parent.
C21_EnqueuedOnlyAfterPatch ==
    enqueued_under # {} => (pphase \in {"once", "twice"} /\ pret.tag = "Ok")

\* C22: every archive an analysis downloads is deleted by the time the
\* analysis returns: between analyses no .crate file is in the temp dir.
C22_ArchivesDeleted == archives = {}

\* C23: the loop visits nodes in breadth-first order of discovery depth:
\* the depth of the node being processed never decreases, and while a node
\* of some depth is processed no node of a smaller depth waits in the queue
\* (so all nodes of depth k are processed before one of depth k+1 begins).
C23_BreadthFirstOrder ==
    /\ [](\A i \in 1..Len(qdepth) : qdepth[i] >= cur_depth)
    /\ [][cur_depth' >= cur_depth]_vars

\* C23 witness: a node of depth 1 is being processed while a node of depth
\* 1 and a node of depth 2 wait in the queue.
C23_Witness ==
    /\ pc = "deps"
    /\ cur_depth = 1
    /\ \E i, j \in 1..Len(qdepth) : qdepth[i] = 1 /\ qdepth[j] = 2

\* The tool exited non-zero for the crate.
ToolFailed(p) == report[p].download /\ ~report[p].exit_ok

RecordPkg(e) == <<e[2][1], e[2][2]>>

\* C24: a dependent for which the tool exits non-zero is never enqueued,
\* has no result file, is not counted as calling, and the tool ran exactly
\* once in each of its analyses; the step that analyses it stays in the for
\* loop with the remaining records and leaves the queue as it is.
C24_ToolFailureSkipsDependent ==
    /\ [](\A p \in PkgIds :
            ToolFailed(p) =>
                /\ \A e \in enqueued_under : RecordPkg(e) # p
                /\ p \notin files
                /\ p \notin returned_calls
                /\ tool_runs[p] = started[p])
    /\ [][\A p \in PkgIds :
            (pc = "deps" /\ started'[p] > started[p] /\ ToolFailed(p)')
                => /\ pc' = "deps"
                   /\ dependents' = Tail(dependents)
                   /\ queue' = queue
                   /\ visited' = visited]_vars

\* C24 witness: under one parent the tool failed for a dependent and a
\* later dependent of that parent was enqueued.
C24_Witness ==
    \E a \in analysed_under, e \in enqueued_under :
        /\ a[1] = e[1]
        /\ ToolFailed(RecordPkg(a))
        /\ started[RecordPkg(a)] > 0
        /\ RecordPkg(e) # RecordPkg(a)

\* The download or the extraction of the crate failed.
DownloadFailed(p) == started[p] > 0 /\ ~report[p].download

\* C25: a download or extract failure only skips its PkgId (not enqueued,
\* no result file) and the run still ends normally: no run in which a
\* download failed is aborted by a panic.
C25_DownloadFailureOnlySkips ==
    \A p \in PkgIds :
        DownloadFailed(p) =>
            /\ \A e \in enqueued_under : RecordPkg(e) # p
            /\ p \notin files
            /\ pc # "panicked"

\* C26: a failed registry query is fatal: once a query has failed the
\* traversal does not go on.
C26_FailedQueryIsFatal == queried = "failed" => pc = "query_panicked"

SeedAccepts(v) ==
    /\ v \in DOMAIN VersionTable
    /\ \A i \in 1..Len(version_req[1]) :
          CmpMatches(version_req[1][i], VersionTable[v])

\* C28: after a successful version query the initial queue holds exactly
\* the pairs (seed, v) for the published versions v that match the seed
\* range, each of them once.
C28_InitialQueue ==
    (pc = "loop" /\ current = NoPkg /\ queried = "ok") =>
        /\ Range(queue) = {<<start_crate, v>> :
                              v \in {w \in Range(registry.versions) : SeedAccepts(w)}}
        /\ \A i, j \in 1..Len(queue) : queue[i] = queue[j] => i = j

\* C28 witness: the initial queue holds one of four published versions.
C28_Witness ==
    /\ pc = "loop"
    /\ current = NoPkg
    /\ queried = "ok"
    /\ Len(registry.versions) = 4
    /\ queue = << <<start_crate, "1.1.0">> >>

\* The crates whose sources do not contain the bare identifier of the
\* target function.
WithoutIdentifier == {<<"g", "0.1.0">>, <<"h", "0.1.0">>}

\* C29: the tool is not run on a crate whose sources do not contain the
\* bare identifier, and no result file is written for it.
C29_NoToolWithoutIdentifier ==
    \A p \in WithoutIdentifier : tool_runs[p] = 0 /\ p \notin files

\* C30: no worker thread of the leaf phase panics and the run is not
\* aborted by a worker.
C30_NoWorkerPanics ==
    /\ \A t \in Threads : th_pc[t] # "panicked"
    /\ pc # "panicked"

(***************************************************************************)
(* Properties of the traversal: scheduling, termination and the queue.     *)
(***************************************************************************)

\* The run is over: find_all_dependents returned or the main thread
\* panicked on a join.
RunEnded == pc \in {"done", "panicked"}

\* C32: the emitted files are fixed by the inputs, whatever the schedule of
\* the workers: when a run is over every leaf has been analysed, and the
\* file of every leaf whose report has callers is there.
C32_FilesFixedByInputs ==
    RunEnded =>
        \A i \in 1..Len(leaf_nodes) :
            /\ started[leaf_nodes[i]] > 0
            /\ check_function_call(report[leaf_nodes[i]])
                  => leaf_nodes[i] \in files

\* C34: within one run no PkgId is pushed onto the queue twice, as a seed
\* or as a dependent.
C34_PushedAtMostOnce == \A p \in PkgIds : pushes[p] <= 1

\* C37: the leaf phase hands every leaf to a worker: once every worker has
\* taken its slice (or panicked), no node is left in the shared vector.
C37_EveryLeafHandedOut ==
    (pc \in {"join", "done", "panicked"}
        /\ \A t \in Threads : th_pc[t] # "spawned")
            => nodes = << >>

\* C39: every queued PkgId that is not a seed is in visited, and every
\* member of visited was pushed under a parent whose requirement matched
\* after its analysis returned a report with total_callers > 0.
C39_QueuedAreVisited ==
    /\ \A i \in 1..Len(queue) : queue[i] \notin seeds => queue[i] \in visited
    /\ \A v \in visited :
          /\ v \in returned_calls
          /\ report[v].total_callers > 0
          /\ \E e \in enqueued_under :
                /\ RecordPkg(e) = v
                /\ e \in analysed_under
                /\ ReqAccepts(e[2], e[1])

\* C39 witness: two dependents that were found to call wait in the queue.
C39_Witness ==
    /\ pc = "deps"
    /\ \E i, j \in 1..Len(queue) :
          /\ i # j
          /\ queue[i] \notin seeds
          /\ queue[j] \notin seeds
          /\ {queue[i], queue[j]} \subseteq visited

\* The loop of find_all_dependents is over with an empty queue, or a query
\* did not return.
LoopLeft ==
    \/ pc = "query_panicked"
    \/ pc \in {"join", "done", "panicked"} /\ queue = << >>

\* C33: when every query, download and tool invocation returns, the
\* traversal loop ends on every registry, cyclic ones included: the queue
\* eventually becomes empty.
C33_Terminates == <>LoopLeft

\* C33 witness: the loop has ended on a registry with a cycle through a
\* seed, after the seed was enqueued again from its dependent.
C33_Witness ==
    /\ pc = "join"
    /\ queue = << >>
    /\ pushes[<<start_crate, "1.0.0">>] = 2
    /\ <<"h", "0.1.0">> \in visited

(***************************************************************************)
(* Properties of get_crate_dir_path: completed extraction and progress.    *)
(***************************************************************************)

\* C35: a task is handed the extracted directory only when the extraction
\* into it has completed: no call has returned Ok (or is about to, past
\* the existence check or the wait loop) while tar is still filling the
\* directory.
C35_ReturnedDirIsComplete ==
    \A t \in Tasks :
        (kpc[t] \in {"exit", "returned"} /\ result[t] = "ok")
            => extract_dir[get_extract_dir_path(krate[t])] # "partial"

\* No call of get_crate_dir_path is under way.
NoCallPending == \A t \in Tasks : kpc[t] \in {"idle", "returned"}

\* C36: under fair scheduling every call of get_crate_dir_path returns:
\* again and again no call is pending (a task calls once, so a call that
\* never returned would be pending for ever).
C36_EveryCallReturns == []<>NoCallPending

\* C36 witness: all tasks have returned, one of them after waiting in the
\* poll loop, with two calls on the same crate.
C36_Witness ==
    /\ \A t \in Tasks : kpc[t] = "returned"
    /\ \E t \in Tasks : waited[t]
    /\ krate["t1"] = krate["t2"]

(***************************************************************************)
(* Properties of the patch: the frame of the rewrite.                      *)
(***************************************************************************)

\* The pieces of a text between its line feeds: the lines of a text that
\* was put together with join("\n").
RECURSIVE SplitAtLineFeed(_)
SplitAtLineFeed(text) ==
    IF text = << >> THEN << >>
    ELSE LET n == FirstLineFeed(text)
         IN IF n = 0 THEN <<text>>
            ELSE IF n = Len(text) THEN <<SubSeq(text, 1, n - 1), << >> >>
            ELSE <<SubSeq(text, 1, n - 1)>>
                    \o SplitAtLineFeed(SubSeq(text, n + 1, Len(text)))

\* Line i is an entry the patch is there to rewrite: the inline entry of
\* the parent under [dependencies], or the version line of its sub-table.
IsParentEntry(ls, i, name) ==
    \/ IsEntryOf(ls[i], name) /\ EnclosingTable(ls, i) = DependenciesTable
    \/ IsEntryOf(ls[i], <<"version">>) /\ EnclosingTable(ls, i) = SubTable(name)

\* C38: after a call that returned Ok the manifest has as many lines as
\* before, in the same order, and every line that is not an entry of the
\* parent has exactly the text it had (indentation included).
C38_OnlyEntryChanges ==
    PatchedOk =>
        LET ls == lines(pbefore[1])
            out == SplitAtLineFeed(manifest[1])
        IN /\ Len(out) = Len(ls)
           /\ \A i \in 1..Len(ls) :
                 ~IsParentEntry(ls, i, pdep[1]) => out[i] = ls[i]

\* C38 witness: a call returned Ok and rewrote the entry of the parent
\* that stood between a header and an indented line, both kept as they were.
C38_Witness ==
    /\ PatchedOk
    /\ pphase = "once"
    /\ lines(pbefore[1]) = << <<"[", "dependencies", "]">>,
                              <<"p", " ", "=", " ", "\"", "1", "\"">>,
                              <<" ", "version", " ", "=", " ", "\"", "1", "\"">> >>
    /\ SplitAtLineFeed(manifest[1])
          = << <<"[", "dependencies", "]">>,
               <<"p", " ", "=", " ", "\"", "=", "2", "\"">>,
               <<" ", "version", " ", "=", " ", "\"", "1", "\"">> >>

(***************************************************************************)
(* Properties of the working directory in the leaf phase.                  *)
(***************************************************************************)

\* The extracted directory of the worker's own crate in the temp dir.
OwnCrateDir(w) == Append(TempDir, WorkerCrate(w))

\* C31: for every interleaving of the workers, each report is written to
\* target/ under the directory the run was started in, each archive and
\* each extracted directory is created in the temp dir, and the tool of a
\* worker runs in the extracted directory of the worker's own crate.
C31_OwnFilesUnderStartDir ==
    /\ \A e \in disk :
          /\ e[1] = "report" => e[2] = StartDir
          /\ e[1] \in {"archive", "dir"} => e[2] = TempDir
    /\ \A w \in Workers :
          tool_dir[w] # NoneV => tool_dir[w][1] = OwnCrateDir(w)

====
